---- MODULE Spec2Model ----
(***************************************************************************)
(* A model of intelark/spiders/cpuspecs.py: the text normalizer cleantxt,  *)
(* the series walk parse_series and the page extractor parse_specs.        *)
(*                                                                         *)
(* Python strings are TLA+ strings, read character by character with       *)
(* SubSeq.  The three glyphs cleantxt removes are not ASCII and are        *)
(* written by one stand-in character each: see TM, REG and DDAGGER.        *)
(* A generator is a process: its position between two yields is a value of *)
(* pc, and one action runs the code from one yield (or the call) to the    *)
(* next yield, to the end or to the exception that leaves it.              *)
(***************************************************************************)
EXTENDS Integers, Sequences, FiniteSets, TLC

VARIABLES
    txt,        \* cleantxt: the argument a caller passes
    res,        \* cleantxt: the results of applying it once, then again
    crumbs,     \* parse_series: text of the nodes the breadcrumb query matches
    spc,        \* parse_series: position of the generator
    requests,   \* parse_series: the Requests yielded so far
    links,      \* parse_series: the row links the for loop has visited
    logged,     \* parse_series: lines written by self.logger.error
    serr,       \* parse_series: the exception that ended it, or NoError
    pc,         \* parse_specs: position of the generator
    specs,      \* parse_specs: the local dict specs
    legends,    \* parse_specs: the local dict legends
    header,     \* parse_specs: the local header (NoHeader before the loop)
    k,          \* parse_specs: the local k, the key of the row being read
    v,          \* parse_specs: the local v, the normalized text of that row
    sockets,    \* parse_specs: the local list sockets (<<>> before line 191)
    isock,      \* parse_specs: how many sockets the for loop has visited
    out,        \* parse_specs: the items yielded so far by this call
    err,        \* parse_specs: the exception that ended the call, or NoError
    nrow        \* parse_specs: rows read so far

cleanVars == <<txt, res>>
seriesVars == <<crumbs, spc, requests, links, logged, serr>>
specsVars == <<pc, specs, legends, header, k, v, sockets, isock, out, err, nrow>>
vars == <<txt, res, crumbs, spc, requests, links, logged, serr,
          pc, specs, legends, header, k, v, sockets, isock, out, err, nrow>>

(***************************************************************************)
(* Bounds of the model.                                                    *)
(***************************************************************************)
MaxLen == 6         \* characters of a cleantxt argument
MaxLinks == 4       \* row links of a series page
MaxRows == 2        \* rows of a product page, over all its sections

(***************************************************************************)
(* Python's str methods, as the code uses them.                            *)
(***************************************************************************)
Char(s, i) == SubSeq(s, i, i)
From(s, i) == SubSeq(s, i, Len(s))

\* str.find(sub): the lowest 0-based index of sub in s, or -1
RECURSIVE FindFrom(_, _, _)
FindFrom(s, sub, i) ==
    IF i + Len(sub) > Len(s) THEN -1
    ELSE IF SubSeq(s, i + 1, i + Len(sub)) = sub THEN i
    ELSE FindFrom(s, sub, i + 1)

Find(s, sub) == FindFrom(s, sub, 0)

\* str.replace(old, new): every non-overlapping occurrence, left to right,
\* in one pass over the original string
RECURSIVE Replace(_, _, _)
Replace(s, old, new) ==
    IF Len(s) < Len(old) THEN s
    ELSE IF SubSeq(s, 1, Len(old)) = old
         THEN new \o Replace(From(s, Len(old) + 1), old, new)
         ELSE Char(s, 1) \o Replace(From(s, 2), old, new)

Whitespace == {" ", "\t", "\n"}

RECURSIVE LStripChars(_, _)
LStripChars(s, chars) ==
    IF s # "" /\ Char(s, 1) \in chars THEN LStripChars(From(s, 2), chars) ELSE s

RECURSIVE RStripChars(_, _)
RStripChars(s, chars) ==
    IF s # "" /\ Char(s, Len(s)) \in chars
    THEN RStripChars(SubSeq(s, 1, Len(s) - 1), chars) ELSE s

\* str.strip() and str.strip(chars)
StripChars(s, chars) == RStripChars(LStripChars(s, chars), chars)
Strip(s) == StripChars(s, Whitespace)

RECURSIVE TakeWord(_)
TakeWord(s) ==
    IF s = "" \/ Char(s, 1) \in Whitespace THEN ""
    ELSE Char(s, 1) \o TakeWord(From(s, 2))

\* str.split(): the runs of non-whitespace characters
RECURSIVE SplitWs(_)
SplitWs(s) ==
    LET t == LStripChars(s, Whitespace) IN
    IF t = "" THEN <<>>
    ELSE LET w == TakeWord(t) IN <<w>> \o SplitWs(From(t, Len(w) + 1))

\* sep.join(words)
RECURSIVE Join(_, _)
Join(sep, words) ==
    IF words = <<>> THEN ""
    ELSE IF Len(words) = 1 THEN words[1]
    ELSE words[1] \o sep \o Join(sep, Tail(words))

\* str.split(sep): at least one piece, empty pieces kept
RECURSIVE SplitOn(_, _)
SplitOn(s, sep) ==
    LET i == Find(s, sep) IN
    IF i = -1 THEN <<s>>
    ELSE <<SubSeq(s, 1, i)>> \o SplitOn(From(s, i + Len(sep) + 1), sep)

(***************************************************************************)
(* BaseSpider.cleantxt.                                                    *)
(***************************************************************************)
TM == "~"           \* stands for U+2122, the trade mark sign
REG == "@"          \* stands for U+00AE, the registered sign
DDAGGER == "#"      \* stands for U+2021, the double dagger

cleantxt(text) ==
    LET v1 == Replace(text, "Intel", "")
        v2 == Replace(v1, TM, "")
        v3 == Replace(v2, REG, "")
        v4 == Replace(v3, DDAGGER, "")
        v5 == Join(" ", SplitWs(v4))
    IN Strip(v5)

(***************************************************************************)
(* Python's int(str): surrounding whitespace, one optional sign, decimal   *)
(* digits with single underscores between them.  ok is FALSE where int     *)
(* raises ValueError.                                                      *)
(***************************************************************************)
Digits == {"0", "1", "2", "3", "4", "5", "6", "7", "8", "9"}
DigitVal(c) == CHOOSE n \in 0..9 : Char("0123456789", n + 1) = c

RECURSIVE WellFormedDigits(_)
WellFormedDigits(s) ==
    \/ Len(s) = 1 /\ s \in Digits
    \/ /\ Len(s) > 1
       /\ Char(s, 1) \in Digits
       /\ WellFormedDigits(From(s, IF Char(s, 2) = "_" THEN 3 ELSE 2))

RECURSIVE DigitsValue(_, _)
DigitsValue(s, acc) ==
    IF s = "" THEN acc
    ELSE IF Char(s, 1) = "_" THEN DigitsValue(From(s, 2), acc)
    ELSE DigitsValue(From(s, 2), 10 * acc + DigitVal(Char(s, 1)))

PyInt(s) ==
    LET t == Strip(s)
        signed == t # "" /\ Char(t, 1) \in {"+", "-"}
        body == IF signed THEN From(t, 2) ELSE t
        n == DigitsValue(body, 0)
    IN IF WellFormedDigits(body)
       THEN [ok |-> TRUE, n |-> IF signed /\ Char(t, 1) = "-" THEN 0 - n ELSE n]
       ELSE [ok |-> FALSE, n |-> 0]

(***************************************************************************)
(* urllib.parse: the path of urlsplit(url), and urljoin(base, href) for    *)
(* the three shapes of href a listing page carries.                        *)
(***************************************************************************)
CutAt(s, c) == LET i == Find(s, c) IN IF i = -1 THEN s ELSE SubSeq(s, 1, i)

\* scheme://netloc of an absolute url
UrlOrigin(url) ==
    LET i == Find(url, "://")
        rest == From(url, i + 4)
    IN SubSeq(url, 1, i + 3) \o CutAt(CutAt(CutAt(rest, "/"), "?"), "#")

UrlPath(url) ==
    LET i == Find(url, "://")
        hier == IF i = -1 THEN url ELSE From(url, Len(UrlOrigin(url)) + 1)
    IN CutAt(CutAt(hier, "?"), "#")

RECURSIVE DirName(_)
DirName(path) ==
    IF path = "" \/ Char(path, Len(path)) = "/" THEN path
    ELSE DirName(SubSeq(path, 1, Len(path) - 1))

urljoin(base, href) ==
    IF Find(href, "://") # -1 THEN href
    ELSE IF href # "" /\ Char(href, 1) = "/" THEN UrlOrigin(base) \o href
    ELSE UrlOrigin(base) \o DirName(UrlPath(base)) \o href

(***************************************************************************)
(* Python values of more than one type: None, and the values a section     *)
(* stores.  SelectorList.get() is the text of the first matching node, or  *)
(* None when the query matches nothing.                                    *)
(***************************************************************************)
PyNone == [t |-> "none"]
PyStr(s) == [t |-> "str", s |-> s]
PyBool(b) == [t |-> "bool", b |-> b]
PyNum(n) == [t |-> "int", n |-> n]
PyList(l) == [t |-> "list", l |-> l]

Get(sel) == IF sel = <<>> THEN PyNone ELSE PyStr(sel[1])

\* dict operations
EmptyDict == [x \in {} |-> PyNone]
DictSet(d, key, val) == [x \in DOMAIN d \cup {key} |-> IF x = key THEN val ELSE d[x]]
DictDel(d, key) == [x \in DOMAIN d \ {key} |-> d[x]]

(***************************************************************************)
(* Values the three components leave alone while another one runs.         *)
(***************************************************************************)
NoError == "none"
Exc(type, msg) == [type |-> type, msg |-> msg]
NoExc == Exc("none", "")
NoHeader == PyNone
NoLocal == ""       \* k and v outside the body of the row loop

CleanIdle == txt = "" /\ res = <<>>
SeriesIdle ==
    /\ crumbs = <<>>
    /\ spc = "idle"
    /\ requests = <<>>
    /\ links = <<>>
    /\ logged = 0
    /\ serr = NoError
SpecsIdle ==
    /\ pc = "idle"
    /\ specs = EmptyDict
    /\ legends = EmptyDict
    /\ header = NoHeader
    /\ k = NoLocal
    /\ v = NoLocal
    /\ sockets = <<>>
    /\ isock = 0
    /\ out = <<>>
    /\ err = NoExc
    /\ nrow = 0

(***************************************************************************)
(* A caller of cleantxt: it puts an argument together from pieces, applies *)
(* cleantxt to it, and applies cleantxt to the result.                     *)
(***************************************************************************)
Pieces == {"Intel", "In", "tel", TM, REG, DDAGGER, " ", "\t", "Core"}

InitClean == CleanIdle /\ SeriesIdle /\ SpecsIdle

Extend(p) ==
    /\ res = <<>>
    /\ Len(txt) + Len(p) <= MaxLen
    /\ txt' = txt \o p
    /\ UNCHANGED res

Normalize ==
    /\ res = <<>>
    /\ res' = <<cleantxt(txt)>>
    /\ UNCHANGED txt

Renormalize ==
    /\ Len(res) = 1
    /\ res' = Append(res, cleantxt(res[1]))
    /\ UNCHANGED txt

NextClean ==
    \/ \E p \in Pieces : Extend(p) /\ UNCHANGED <<seriesVars, specsVars>>
    \/ Normalize /\ UNCHANGED <<seriesVars, specsVars>>
    \/ Renormalize /\ UNCHANGED <<seriesVars, specsVars>>

SpecClean == InitClean /\ [][NextClean]_vars

(***************************************************************************)
(* BaseSpider.parse_series on one series page.  The page is read as the    *)
(* generator reads it: the breadcrumb query once, then one row link for    *)
(* each turn of the for loop.                                              *)
(***************************************************************************)
SeriesUrl == "https://ark.intel.com/content/www/us/en/ark/products/series/595/x.html"

CrumbSels ==
    { <<>>, <<"Processors">>, <<"  Processors\n">>, <<"Product Specifications">>,
      <<"processors">>, <<"Product Specifications", "Processors">> }

Hrefs ==
    { "/content/www/us/en/ark/products/29765/q6600.html",
      "/content/www/us/en/ark/compare.html",
      "https://www.intel.com/products/33921.html",
      "../series/products/35428.html" }

Request(url, callback) == [url |-> url, callback |-> callback]

InitSeries ==
    /\ CleanIdle /\ SpecsIdle
    /\ crumbs \in CrumbSels
    /\ spc = "start"
    /\ requests = <<>>
    /\ links = <<>>
    /\ logged = 0
    /\ serr = NoError

\* lines 92-93: the breadcrumb guard
SeriesStart ==
    /\ spc = "start"
    /\ LET crumb == Get(crumbs) IN
       IF crumb = PyNone
       THEN spc' = "failed" /\ serr' = "AttributeError"
       ELSE IF Strip(crumb.s) # "Processors"
       THEN spc' = "failed" /\ serr' = "CloseSpider"
       ELSE spc' = "walk" /\ serr' = serr
    /\ UNCHANGED <<crumbs, requests, links, logged>>

\* lines 95-99: one turn of the for loop
SeriesLink(href) ==
    /\ spc = "walk"
    /\ Len(links) < MaxLinks
    /\ links' = Append(links, href)
    /\ IF Find(href, "/products/") = -1
       THEN logged' = logged + 1 /\ requests' = requests
       ELSE /\ requests' = Append(requests, Request(urljoin(SeriesUrl, href), "parse_specs"))
            /\ logged' = logged
    /\ UNCHANGED <<crumbs, spc, serr>>

\* the for loop ends: the generator is exhausted
SeriesEnd ==
    /\ spc = "walk"
    /\ spc' = "done"
    /\ UNCHANGED <<crumbs, requests, links, logged, serr>>

NextSeries ==
    \/ SeriesStart /\ UNCHANGED <<cleanVars, specsVars>>
    \/ \E href \in Hrefs : SeriesLink(href) /\ UNCHANGED <<cleanVars, specsVars>>
    \/ SeriesEnd /\ UNCHANGED <<cleanVars, specsVars>>

SpecSeries == InitSeries /\ [][NextSeries]_vars

(***************************************************************************)
(* The tables of the module: lines 10-52.                                  *)
(***************************************************************************)
convertTo ==
    [ NumPCIExpressPorts |-> "int",
      MaxCPUs |-> "int",
      NumMemoryChannels |-> "int",
      CoreCount |-> "int",
      ThreadCount |-> "int",
      NumUSBPorts |-> "int",
      NumSATAPorts |-> "int",
      SATA6PortCount |-> "int",
      ClockSpeed |-> "speedToHz",
      GraphicsFreq |-> "speedToHz",
      GraphicsMaxFreq |-> "speedToHz",
      ClockSpeedMax |-> "speedToHz",
      TurboBoostMaxTechMaxFreq |-> "speedToHz",
      GraphicsMaxMem |-> "sizeToBytes",
      NumDisplaysSupported |-> "int",
      MaxMem |-> "sizeToBytes",
      EmbeddedDramMB |-> "sizeToBytes",
      MaxMemoryBandwidth |-> "sizeToBytes",
      UltraPathInterconnectLinks |-> "int",
      AVX512FusedMultiplyAddUnits |-> "int",
      InstructionSetExtensions |-> "toList",
      DiscreteGraphicsComputeUnitCount |-> "int",
      DiscreteNumDisplaysSupported |-> "int",
      MemoryMaxSpeedMhz |-> "speedToHz",
      PackageSize |-> "toPackage",
      MaxTDP |-> "toTDP",
      BusNumPorts |-> "int" ]

skipIfValue == {"View now", "Additional Information URL", "Datasheet"}

skipIfKey ==
    {"Product Brief", "Additional Information URL", "Datasheet",
     "Product Collection", "Code Name"}

(***************************************************************************)
(* The converters.  A call returns [ok |-> TRUE, val |-> the value] or     *)
(* [ok |-> FALSE], where it raises ValueError.  int is Python's.  The      *)
(* others are intelark.converters': toList splits on comma-space and       *)
(* never fails; of the remaining four only the contract is used, a typed   *)
(* value or a failure, so a call has both outcomes.                        *)
(***************************************************************************)
Returned(val) == [ok |-> TRUE, val |-> val]
Raised == [ok |-> FALSE, val |-> PyNone]

RECURSIVE StripAll(_)
StripAll(l) == IF l = <<>> THEN <<>> ELSE <<Strip(Head(l))>> \o StripAll(Tail(l))

toList(text) ==
    IF text = "" THEN PyList(<<>>) ELSE PyList(StripAll(SplitOn(text, ", ")))

Typed(conv, text) == [t |-> conv, of |-> text]

Convert(conv, text) ==
    IF conv = "int"
    THEN LET r == PyInt(text) IN {IF r.ok THEN Returned(PyNum(r.n)) ELSE Raised}
    ELSE IF conv = "toList" THEN {Returned(toList(text))}
    ELSE {Returned(Typed(conv, text)), Raised}

(***************************************************************************)
(* intelark.items: an item holds a copy of the dict it is made from.       *)
(***************************************************************************)
CPULegendItem(d) == [item |-> "CPULegendItem", fields |-> d]
CPUSpecsItem(d) == [item |-> "CPUSpecsItem", fields |-> d]
CPUSpecsUnknownItem(d) == [item |-> "CPUSpecsUnknownItem", fields |-> d]

(***************************************************************************)
(* BaseSpider.parse_specs on one product page.  The page is read as the    *)
(* generator reads it: the url and the name node at the call, then one     *)
(* section block or one row at a time.                                     *)
(***************************************************************************)
Urls ==
    { "https://ark.intel.com/content/www/us/en/ark/products/29765/q6600.html",
      "https://ark.intel.com/content/www/us/en/ark/products/0/q6600.html",
      "https://ark.intel.com/content/www/us/en/ark/products/series/595/x.html",
      "https://ark.intel.com/content/www/us/en/ark.html" }

NameSels == { <<"Intel@ Core~2 Quad Processor Q6600">>, <<>> }

Headers == {"Essentials", "Package Specifications"}

KeySels ==
    { <<"Processor Number">>, <<" Sockets Supported ">>, <<"CoreCount">>,
      <<"MaxTDP">>, <<"Code Name">>, <<>> }

ValueSels ==
    { <<"Yes~">>, <<"No">>, <<"">>, <<" 4">>, <<"View now">>,
      <<"FCLGA1700,  FCBGA1744">>, <<>> }

InitSpecs ==
    /\ CleanIdle /\ SeriesIdle
    /\ pc = "start"
    /\ specs = EmptyDict
    /\ legends = EmptyDict
    /\ header = NoHeader
    /\ k = NoLocal
    /\ v = NoLocal
    /\ sockets = <<>>
    /\ isock = 0
    /\ out = <<>>
    /\ err = NoExc
    /\ nrow = 0

Raise(e) == pc' = "failed" /\ err' = e

\* the exceptions a missing node or a malformed url ends the call with
ErrNoSegment == Exc("IndexError", "list index out of range")
ErrNotNumeric(seg) == Exc("ValueError", "invalid literal for int() with base 10: " \o seg)
ErrNoName == Exc("AttributeError", "'NoneType' object has no attribute 'replace'")
ErrNoKey == Exc("AttributeError", "'NoneType' object has no attribute 'strip'")
ErrNoValue == Exc("TypeError", "can only join an iterable")
ErrFailed(key, text) == Exc("ValueError", "FAILED: " \o key \o ": " \o text)

\* lines 106-120: from the call to the first section block
Begin(url, nameSel) ==
    /\ pc = "start"
    /\ LET segs == SplitOn(StripChars(UrlPath(url), {"/"}), "/")
           arkcpuid == PyInt(segs[7])
           cpuname == Get(nameSel)
       IN IF Len(segs) < 7
          THEN Raise(ErrNoSegment) /\ UNCHANGED specs
          ELSE IF ~arkcpuid.ok
          THEN Raise(ErrNotNumeric(segs[7])) /\ UNCHANGED specs
          ELSE IF cpuname = PyNone
          THEN Raise(ErrNoName) /\ UNCHANGED specs
          ELSE /\ specs' = [URL |-> url, name |-> cleantxt(cpuname.s), arkid |-> arkcpuid.n]
               /\ pc' = "sections"
               /\ err' = err
    /\ UNCHANGED <<legends, header, k, v, sockets, isock, out, nrow>>

\* lines 123-124: a block that is the Download Specifications link
SkipDownload ==
    /\ pc \in {"sections", "rows"}
    /\ pc' = "sections"
    /\ k' = NoLocal
    /\ UNCHANGED <<specs, legends, header, v, sockets, isock, out, err, nrow>>

\* lines 125-129: a block with header h
EnterSection(h) ==
    /\ pc \in {"sections", "rows"}
    /\ pc' = "rows"
    /\ header' = h
    /\ IF h \notin DOMAIN specs
       THEN /\ specs' = DictSet(specs, h, EmptyDict)
            /\ legends' = DictSet(legends, h, EmptyDict)
       ELSE UNCHANGED <<specs, legends>>
    /\ k' = NoLocal
    /\ UNCHANGED <<v, sockets, isock, out, err, nrow>>

\* TypeValue with the dispatch table consulted before the three fixed texts
TypeValueConverterFirst(key, text) ==
    IF key \in DOMAIN convertTo THEN Convert(convertTo[key], text)
    ELSE IF text = "Yes" THEN {Returned(PyBool(TRUE))}
    ELSE IF text = "No" THEN {Returned(PyBool(FALSE))}
    ELSE IF text = "" THEN {Returned(PyNone)}
    ELSE {Returned(PyStr(text))}

\* lines 151-165: the value stored for a key and a normalized text, or the
\* converter's failure
TypeValue(key, text) ==
    IF text = "Yes" THEN {Returned(PyBool(TRUE))}
    ELSE IF text = "No" THEN {Returned(PyBool(FALSE))}
    ELSE IF text = "" THEN {Returned(PyNone)}
    ELSE IF key \in DOMAIN convertTo THEN Convert(convertTo[key], text)
    ELSE {Returned(PyStr(text))}

\* line 141
RowLegend(key) ==
    DictSet(legends, header, DictSet(legends[header], key, cleantxt(key)))

\* SkipsKey with the raw key looked up in the other skip list
SkipsKeyInValueList(key) == key \in skipIfValue

\* line 138
SkipsKey(key) == key \in skipIfKey

\* lines 135-146: a row of the current block is read: its key, the skip-key
\* check, its legend entry, its normalized text
ReadRow(keySel, valueSel) ==
    /\ pc = "rows"
    /\ nrow < MaxRows
    /\ nrow' = nrow + 1
    /\ UNCHANGED <<specs, header, sockets, isock, out>>
    /\ IF Get(keySel) = PyNone
       THEN Raise(ErrNoKey) /\ k' = NoLocal /\ UNCHANGED <<v, legends>>
       ELSE
       LET key == Strip(keySel[1]) IN
       IF SkipsKey(key)
       THEN k' = key /\ UNCHANGED <<pc, err, v, legends>>
       ELSE /\ legends' = RowLegend(key)
            /\ k' = key
            /\ IF Get(valueSel) = PyNone
               THEN Raise(ErrNoValue) /\ UNCHANGED v
               ELSE /\ v' = cleantxt(Strip(valueSel[1]))
                    /\ pc' = "value"
                    /\ err' = err

\* RowRaise with the exception caught and the row skipped
RowRaiseSwallowed(e) == pc' = "rows" /\ UNCHANGED <<err, specs>>

\* line 165: the ValueError leaves the generator
RowRaise(e) == Raise(e) /\ UNCHANGED specs

\* line 167
RowStore(val) ==
    /\ specs' = DictSet(specs, header, DictSet(specs[header], k, val))
    /\ pc' = "rows"
    /\ err' = err

\* lines 148-167: the row read is skipped for its value, or typed and
\* stored; k and v are dead once the row is done
StoreRow ==
    /\ pc = "value"
    /\ IF v \in skipIfValue
       THEN pc' = "rows" /\ UNCHANGED <<err, specs>>
       ELSE \E r \in TypeValue(k, v) :
                IF r.ok THEN RowStore(r.val) ELSE RowRaise(ErrFailed(k, v))
    /\ k' = NoLocal
    /\ v' = NoLocal
    /\ UNCHANGED <<legends, header, sockets, isock, out, nrow>>

\* line 171: the section loop ends and the legend item is yielded
YieldLegend ==
    /\ pc \in {"sections", "rows"}
    /\ out' = Append(out, CPULegendItem(legends))
    /\ pc' = "legend"
    /\ k' = NoLocal
    /\ UNCHANGED <<specs, legends, header, v, sockets, isock, err, nrow>>

Hoisted(d) ==
    IF "Processor Number" \in DOMAIN d["Essentials"]
    THEN [DictSet(d, "id", d["Essentials"]["Processor Number"])
            EXCEPT !["Essentials"] = DictDel(@, "Processor Number")]
    ELSE d

\* lines 173-196: from the legend's yield to the next yield
AfterLegend ==
    /\ pc = "legend"
    /\ IF "Package Specifications" \notin DOMAIN specs
       THEN /\ Raise(Exc("KeyError", "Package Specifications"))
            /\ UNCHANGED <<specs, sockets, isock, out>>
       ELSE IF "Essentials" \notin DOMAIN specs
       THEN /\ Raise(Exc("KeyError", "Essentials"))
            /\ UNCHANGED <<specs, sockets, isock, out>>
       ELSE
       LET has_socket == "Sockets Supported" \in DOMAIN specs["Package Specifications"]
           d == Hoisted(specs)
       IN IF ~has_socket
          THEN /\ out' = Append(out, CPUSpecsUnknownItem(d))
               /\ specs' = d
               /\ pc' = "unknown"
               /\ UNCHANGED <<sockets, isock, err>>
          ELSE
          LET supported == d["Package Specifications"]["Sockets Supported"] IN
          IF supported.t # "str"
          THEN /\ Raise(Exc("AttributeError", supported.t \o " has no attribute split"))
               /\ specs' = d
               /\ UNCHANGED <<sockets, isock, out>>
          ELSE
          LET all == SplitOn(supported.s, ", ")
              e == [DictSet(d, "socket", Head(all))
                      EXCEPT !["Package Specifications"] = DictDel(@, "Sockets Supported")]
          IN /\ specs' = e
             /\ out' = Append(out, CPUSpecsItem(e))
             /\ sockets' = all
             /\ isock' = 1
             /\ pc' = "socket"
             /\ err' = err
    /\ UNCHANGED <<legends, header, k, v, nrow>>

\* lines 194-196: the next turn of the socket loop, or its end
NextSocket ==
    /\ pc = "socket"
    /\ IF isock = Len(sockets)
       THEN pc' = "done" /\ UNCHANGED <<specs, isock, out>>
       ELSE /\ specs' = DictSet(specs, "socket", sockets[isock + 1])
            /\ out' = Append(out, CPUSpecsItem(specs'))
            /\ isock' = isock + 1
            /\ pc' = pc
    /\ UNCHANGED <<legends, header, k, v, sockets, err, nrow>>

\* line 188: the generator ends after the unknown-socket item
AfterUnknown ==
    /\ pc = "unknown"
    /\ pc' = "done"
    /\ UNCHANGED <<specs, legends, header, k, v, sockets, isock, out, err, nrow>>

\* the callback is called for the next page: a new generator, new locals
NextPage ==
    /\ pc \in {"done", "failed"}
    /\ pc' = "start"
    /\ specs' = EmptyDict
    /\ legends' = EmptyDict
    /\ header' = NoHeader
    /\ k' = NoLocal
    /\ v' = NoLocal
    /\ sockets' = <<>>
    /\ isock' = 0
    /\ out' = <<>>
    /\ err' = NoExc
    /\ nrow' = 0

Next ==
    \/ \E url \in Urls, nameSel \in NameSels :
           Begin(url, nameSel) /\ UNCHANGED <<cleanVars, seriesVars>>
    \/ SkipDownload /\ UNCHANGED <<cleanVars, seriesVars>>
    \/ \E h \in Headers : EnterSection(h) /\ UNCHANGED <<cleanVars, seriesVars>>
    \/ \E keySel \in KeySels, valueSel \in ValueSels :
           ReadRow(keySel, valueSel) /\ UNCHANGED <<cleanVars, seriesVars>>
    \/ StoreRow /\ UNCHANGED <<cleanVars, seriesVars>>
    \/ YieldLegend /\ UNCHANGED <<cleanVars, seriesVars>>
    \/ AfterLegend /\ UNCHANGED <<cleanVars, seriesVars>>
    \/ NextSocket /\ UNCHANGED <<cleanVars, seriesVars>>
    \/ AfterUnknown /\ UNCHANGED <<cleanVars, seriesVars>>
    \/ NextPage /\ UNCHANGED <<cleanVars, seriesVars>>

Spec == InitSpecs /\ [][Next]_vars

(***************************************************************************)
(* What the claims are stated in.                                          *)
(***************************************************************************)
TopFields == {"URL", "name", "arkid", "id", "socket"}
SectionsOf(d) == DOMAIN d \ TopFields

IsProduct(it) == it.item \in {"CPUSpecsItem", "CPUSpecsUnknownItem"}
Products == SelectSeq(out, IsProduct)

Ended == pc \in {"done", "failed"}

\* the call ended in one of the failures of a malformed page: a url without
\* a numeric id segment, a missing node, a converter's failure, a value
\* that is no string where a string is needed
PageFault == err.type \in {"IndexError", "ValueError", "TypeError", "AttributeError"}

PS == "Package Specifications"
SS == "Sockets Supported"
ES == "Essentials"
PN == "Processor Number"

\* the socket names the page stores, <<>> when it stores none
StoredSockets ==
    IF sockets # <<>> THEN sockets
    ELSE IF PS \in DOMAIN specs /\ SS \in DOMAIN specs[PS] /\ specs[PS][SS].t = "str"
    THEN SplitOn(specs[PS][SS].s, ", ")
    ELSE <<>>

SocketsAbsent ==
    /\ sockets = <<>>
    /\ PS \in DOMAIN specs => SS \notin DOMAIN specs[PS]

NumberStored ==
    \/ "id" \in DOMAIN specs
    \/ ES \in DOMAIN specs /\ PN \in DOMAIN specs[ES]

\* C1: a page read without a page fault yields the legend item first, then
\* one or more items with a socket or exactly one unknown-socket item, and
\* no legend item after the first item.
LegendThenProducts ==
    /\ \A i \in 1..Len(out) : (out[i].item = "CPULegendItem") = (i = 1)
    /\ Ended /\ ~PageFault =>
         /\ Len(out) >= 2
         /\ \/ \A i \in 2..Len(out) :
                   out[i].item = "CPUSpecsItem" /\ "socket" \in DOMAIN out[i].fields
            \/ Len(out) = 2 /\ out[2].item = "CPUSpecsUnknownItem"

\* C2: a page that stores N socket names yields exactly N product items, in
\* the order of the names, the i-th with the i-th name as its socket, equal
\* in every other field and without the Sockets Supported key.
SocketExpansion ==
    Ended /\ ~PageFault /\ StoredSockets # <<>> =>
        /\ Len(Products) = Len(StoredSockets)
        /\ \A i \in 1..Len(Products) :
              /\ Products[i].item = "CPUSpecsItem"
              /\ Products[i].fields["socket"] = StoredSockets[i]
              /\ SS \notin DOMAIN Products[i].fields[PS]
              /\ DictDel(Products[i].fields, "socket") = DictDel(Products[1].fields, "socket")

\* C3: a page with an Essentials section and no Sockets Supported value (the
\* key or the whole Package Specifications section is missing) does not
\* fail and yields exactly one product item, of the unknown-socket kind and
\* without a socket field.
UnknownSocketNeverFails ==
    Ended /\ ~PageFault /\ ES \in DOMAIN specs /\ SocketsAbsent =>
        /\ err = NoExc
        /\ Len(Products) = 1
        /\ Products[1].item = "CPUSpecsUnknownItem"
        /\ "socket" \notin DOMAIN Products[1].fields

\* C4: on a page with a Package Specifications section, every product item
\* has the stored Processor Number as its id and no Processor Number key in
\* Essentials; where no Processor Number is stored the extraction does not
\* fail and the items it yields have no id.
IdHoisting ==
    /\ \A i \in 1..Len(out) :
          IsProduct(out[i]) =>
             /\ PN \notin DOMAIN out[i].fields[ES]
             /\ ("id" \in DOMAIN out[i].fields) = ("id" \in DOMAIN specs)
             /\ "id" \in DOMAIN specs => out[i].fields["id"] = specs["id"]
    /\ Ended /\ ~PageFault /\ PS \in DOMAIN specs /\ ~NumberStored =>
          /\ err = NoExc
          /\ Products # <<>>
          /\ \A i \in 1..Len(Products) : "id" \notin DOMAIN Products[i].fields

\* C5: cleantxt applied to its own result returns that result.
CleantxtIdempotent == Len(res) = 2 => res[2] = res[1]

\* C8: a series page whose first crumb is missing or is not "Processors"
\* ends in CloseSpider with no request; a page whose crumb matches yields
\* one request for each visited link with the /products/ marker, in order.
CrumbMatches == crumbs # <<>> /\ Strip(crumbs[1]) = "Processors"

RECURSIVE ProductRequests(_)
ProductRequests(hrefs) ==
    IF hrefs = <<>> THEN <<>>
    ELSE (IF Find(Head(hrefs), "/products/") # -1
          THEN <<Request(urljoin(SeriesUrl, Head(hrefs)), "parse_specs")>>
          ELSE <<>>) \o ProductRequests(Tail(hrefs))

SeriesGuard ==
    spc # "start" =>
        IF CrumbMatches
        THEN spc \in {"walk", "done"} /\ serr = NoError /\ requests = ProductRequests(links)
        ELSE spc = "failed" /\ serr = "CloseSpider" /\ requests = <<>>

\* C9: every item is yielded for a url whose id segment is a positive
\* integer, and every product item carries that integer as its arkid.
ArkIdPositive ==
    out # <<>> =>
        /\ specs["arkid"] > 0
        /\ \A i \in 1..Len(out) :
              IsProduct(out[i]) => out[i].fields["arkid"] = specs["arkid"]

Stored(val) ==
    /\ pc' = "rows"
    /\ err' = err
    /\ k \in DOMAIN specs'[header]
    /\ specs'[header][k] = val

\* C6: a row with a skip-list key changes neither the legend nor a section;
\* a row with a skip-list value has its legend entry written and no value
\* stored; no section or legend of the call or of a yielded item holds a
\* skip-list key, and every key of a section has a legend entry under the
\* same header.
NoSkipKey(d) == \A h \in SectionsOf(d) : DOMAIN d[h] \cap skipIfKey = {}

Covered(d, lg) ==
    \A h \in SectionsOf(d) : h \in DOMAIN lg /\ DOMAIN d[h] \subseteq DOMAIN lg[h]

SkipRulesState ==
    /\ Covered(specs, legends) /\ NoSkipKey(specs) /\ NoSkipKey(legends)
    /\ \A i \in 1..Len(out) :
          /\ NoSkipKey(out[i].fields)
          /\ IsProduct(out[i]) => Covered(out[i].fields, out[1].fields)

SkipRulesStep ==
    /\ pc = "rows" /\ nrow' = nrow + 1 /\ pc' = "rows" =>
          k' \in skipIfKey /\ legends' = legends /\ specs' = specs
    /\ pc = "rows" /\ pc' = "value" =>
          /\ k' \notin skipIfKey
          /\ k' \in DOMAIN legends'[header]
          /\ legends'[header][k'] = cleantxt(k')
          /\ specs' = specs
    /\ pc = "value" /\ v \in skipIfValue =>
          /\ pc' = "rows"
          /\ specs' = specs
          /\ legends' = legends
          /\ k \in DOMAIN legends[header]
    /\ pc = "value" /\ specs' # specs => v \notin skipIfValue

SkipRules == []SkipRulesState /\ [][SkipRulesStep]_vars

\* a product item whose legend has CoreCount under Essentials and whose
\* Essentials section has no key, after two rows: every CoreCount row had a
\* skip-list value
SkipRulesWitness ==
    /\ Len(out) = 2
    /\ IsProduct(out[2])
    /\ nrow = 2
    /\ DOMAIN out[1].fields[ES] = {"CoreCount"}
    /\ DOMAIN out[2].fields[ES] = {}
    /\ DOMAIN out[1].fields[PS] = {}

\* C7: a kept row stores True for the text "Yes", False for "No" and None
\* for the empty text, whatever its key; for another text it stores the
\* converter's result when the key has a converter (or the converter fails)
\* and the text itself when it has none.
ValueTypingStep ==
    pc = "value" /\ v \notin skipIfValue =>
        IF v = "Yes" THEN Stored(PyBool(TRUE))
        ELSE IF v = "No" THEN Stored(PyBool(FALSE))
        ELSE IF v = "" THEN Stored(PyNone)
        ELSE IF k \in DOMAIN convertTo
        THEN \/ \E r \in Convert(convertTo[k], v) : r.ok /\ Stored(r.val)
             \/ Raised \in Convert(convertTo[k], v) /\ pc' = "failed"
        ELSE Stored(PyStr(v))

ValueTyping == [][ValueTypingStep]_vars

\* a section that holds True under a key with a converter beside a
\* converted number
ValueTypingWitness ==
    /\ pc = "rows"
    /\ DOMAIN specs[header] = {"CoreCount", "MaxTDP"}
    /\ specs[header]["MaxTDP"] = PyBool(TRUE)
    /\ specs[header]["CoreCount"] = PyNum(4)

\* C10: a row whose converter fails ends the call in a ValueError whose
\* message holds the key and the text, stores nothing for the row, and
\* leaves no item yielded: items are yielded only after the section loop;
\* the next call starts from new locals.
FreshCall ==
    /\ specs = EmptyDict /\ legends = EmptyDict
    /\ sockets = <<>> /\ isock = 0
    /\ out = <<>> /\ err = NoExc

ConverterFailureState ==
    /\ pc \in {"start", "sections", "rows", "value"} => out = <<>>
    /\ pc = "failed" /\ err.type = "ValueError" => out = <<>>
    /\ pc = "start" => FreshCall

ConverterFailureStep ==
    /\ pc = "value"
    /\ v \notin skipIfValue \cup {"Yes", "No", ""}
    /\ k \in DOMAIN convertTo
    => \/ \E r \in Convert(convertTo[k], v) : r.ok /\ Stored(r.val)
       \/ /\ Raised \in Convert(convertTo[k], v)
          /\ pc' = "failed"
          /\ err'.type = "ValueError"
          /\ Find(err'.msg, k) # -1
          /\ Find(err'.msg, v) # -1
          /\ specs' = specs
          /\ out' = <<>>

ConverterFailureFatal == []ConverterFailureState /\ [][ConverterFailureStep]_vars

\* the second row of a page failed in int, after a first row was stored
ConverterFailureWitness ==
    /\ pc = "failed"
    /\ err = Exc("ValueError", "FAILED: CoreCount: FCLGA1700, FCBGA1744")
    /\ nrow = 2
    /\ out = <<>>
    /\ \E h \in SectionsOf(specs) : specs[h] # EmptyDict

====
